---- MODULE Spec2Model ----
(***************************************************************************)
(* A model of gioui.org/cpu's compute-shader compiler command              *)
(* (cmd/compile: parseDescriptorSetLayout, parseProgramParams,             *)
(* compileProgram, the generate* emitters, main) and of the example        *)
(* dispatch driver (cmd/example: main).                                    *)
(*                                                                         *)
(* Text is modelled as sequences of one-character strings, so that the     *)
(* fmt.Sscanf conversions are computed character by character.             *)
(***************************************************************************)
EXTENDS Integers, Sequences, FiniteSets, TLC

VARIABLES
    \* ---- descriptor layout parser and the ABI artifact emitters
    tokens,       \* the tokens the -layout flag was written from (history)
    layoutDef,    \* *descSetLayout: the flag's text
    layoutPc,     \* "parse" | "emit" | "done" | "failed"
    layout,       \* []descriptor returned by parseDescriptorSetLayout
    layoutErr,    \* the error it returned ("" is nil)
    header,       \* generateHeader: one field declaration per descriptor
    goImpl,       \* generateGo: one accessor per descriptor
    goFallback    \* generateGoFallback: one accessor per descriptor

layoutVars == <<tokens, layoutDef, layoutPc, layout, layoutErr, header, goImpl, goFallback>>

VARIABLES
    \* ---- parseProgramParams
    disRunOk,     \* whether disassemble.Run() returned nil
    disasm,       \* stdout: the text spirv-dis wrote
    paramsPc,     \* "parse" | "done"
    prog,         \* the program parseProgramParams returned
    progErr       \* the error it returned ("" is nil)

paramsVars == <<disRunOk, disasm, paramsPc, prog, progErr>>

VARIABLES
    \* ---- the compile command: main and compileProgram
    nargs,        \* flag.NArg()
    mainPc,       \* the stage main is about to run, or "exited"
    exitCode,     \* the process's exit code; -1 while it runs
    ran,          \* the stages run so far, in order (history)
    failed,       \* the stages that reported an error (history)
    impl,         \* generateImpl: the program_info initialiser
    renames,      \* the --redefine-sym arguments handed to objcopy
    written,      \* the artifact files written so far, in order
    qprops,       \* per queue family: VK_QUEUE_COMPUTE_BIT set
    vkPc,         \* the step compileProgram is about to run
    created,      \* the Vulkan handles created, in order of creation
    destroyed,    \* the Vulkan handles destroyed, in order of destruction
    heap,         \* the live C.malloc / C.CString blocks
    defers,       \* compileProgram's deferred calls, last deferred last
    vkErr         \* the error compileProgram returns ("" is nil)

compileVars == <<nargs, mainPc, exitCode, ran, failed, impl, renames, written,
                 qprops, vkPc, created, destroyed, heap, defers, vkErr>>

VARIABLES
    \* ---- the example dispatch driver
    nthreads,     \* runtime.NumCPU()
    builtFrom,    \* the shader revision the linked artifact was compiled from
    current,      \* the shader revision the program is expected to be
    drvPc,        \* main goroutine: "prepare" | "spawn" | "wait" | "readback" | "done"
    spawned,      \* the spawn loop's i
    received,     \* the wait loop's i
    prepared,     \* the ProgramInfo ctx.Prepare was given; <<>> before
    workerPc      \* per worker goroutine: "none" | "start" | "dispatch" | "send" | "exit"

driverVars == <<nthreads, builtFrom, current, drvPc, spawned, received, prepared, workerPc>>

VARIABLES
    \* ---- one workgroup of a program with control barriers
    nInv,         \* invocations of the workgroup
    nBarriers,    \* barriers each invocation runs into
    wgPc,         \* "begin" | "await" | "destroy" | "done"
    cursor,       \* the invocation the driving thread turns to next
    coState,      \* per invocation: "none" | "suspended" | "finished" | "destroyed"
    reached,      \* per invocation: barriers reached
    segments      \* per invocation: program segments run (history)

barrierVars == <<nInv, nBarriers, wgPc, cursor, coState, reached, segments>>

VARIABLES
    \* ---- main's naming of the program and of the object's symbols
    file,         \* flag.Arg(0): the path of the shader source
    objSyms,      \* the symbols of the object compileProgram returned (history)
    symtab,       \* the symbols of the .syso file
    namePc,       \* "name" | "generate" | "objcopy" | "done" | "failed"
    progName,     \* main's name
    nameHeader,   \* generateHeader(name, layout)
    nameImpl      \* generateImpl(name, prog)

nameVars == <<file, objSyms, symtab, namePc, progName, nameHeader, nameImpl>>

vars == <<layoutVars, paramsVars, compileVars, driverVars, barrierVars, nameVars>>

notLayoutVars == <<paramsVars, compileVars, driverVars, barrierVars, nameVars>>
notParamsVars == <<layoutVars, compileVars, driverVars, barrierVars, nameVars>>
notCompileVars == <<driverVars, barrierVars, nameVars>>
notDriverVars == <<layoutVars, paramsVars, compileVars, barrierVars, nameVars>>
notBarrierVars == <<layoutVars, paramsVars, compileVars, driverVars, nameVars>>
notNameVars == <<layoutVars, paramsVars, compileVars, driverVars, barrierVars>>

(***************************************************************************)
(* Bounds of the model.                                                    *)
(***************************************************************************)
MaxTokens == 2
MaxBinding == 1
MaxCount == 2
MaxLines == 2
MaxLocalSize == 2
MaxArgs == 2
MaxQueues == 2
MaxThreads == 3
MaxRevisions == 2
MaxInvocations == 4
MaxBarriers == 2
MaxExtraSymbols == 2

(***************************************************************************)
(* Characters and literals.                                                *)
(***************************************************************************)
S_buffer == <<"b","u","f","f","e","r">>
S_image == <<"i","m","a","g","e">>
S_ssbo == <<"s","s","b","o">>
S_OpExecutionMode == <<"O","p","E","x","e","c","u","t","i","o","n","M","o","d","e">>
S_LocalSize == <<"L","o","c","a","l","S","i","z","e">>
S_LocalSizeSp == S_LocalSize \o <<" ">>
S_OpControlBarrier == <<"O","p","C","o","n","t","r","o","l","B","a","r","r","i","e","r">>

descriptorTypeBuffer == 0
descriptorTypeImage == 1

DigitChars == <<"0","1","2","3","4","5","6","7","8","9">>
Digits == {DigitChars[i] : i \in 1..10}
DigitVal(c) == (CHOOSE i \in 1..10 : DigitChars[i] = c) - 1

isSpace(c) == c \in {" ", "\t", "\r", "\n"}

\* strconv.Itoa / the %d verb of Fprintf: an integer as decimal characters.
RECURSIVE NatChars(_)
NatChars(n) == IF n < 10 THEN <<DigitChars[n + 1]>>
               ELSE NatChars(n \div 10) \o <<DigitChars[(n % 10) + 1]>>
Itoa(n) == IF n < 0 THEN <<"-">> \o NatChars(-n) ELSE NatChars(n)

(***************************************************************************)
(* fmt.Sscanf, as far as the formats of this program use it.  A scanner    *)
(* position p is the index of the next unread character of s.              *)
(***************************************************************************)
\* (*ss).SkipSpace with nlIsSpace = false: 0 when a newline is met (an
\* error), else the position of the first non-space character.
RECURSIVE SkipSpace(_, _)
SkipSpace(s, p) ==
    IF p > Len(s) THEN p
    ELSE IF s[p] = "\n" THEN 0
    ELSE IF isSpace(s[p]) THEN SkipSpace(s, p + 1)
    ELSE p

RECURSIVE SkipDigits(_, _)
SkipDigits(s, p) ==
    IF p <= Len(s) /\ s[p] \in Digits THEN SkipDigits(s, p + 1) ELSE p

\* strconv.ParseInt of an unsigned run of decimal digits.
RECURSIVE ParseDigits(_)
ParseDigits(d) ==
    IF d = <<>> THEN 0
    ELSE 10 * ParseDigits(SubSeq(d, 1, Len(d) - 1)) + DigitVal(d[Len(d)])

\* What scanning one item of a format yields: whether it matched, the
\* position after it, and the operand value it converted, if any.
NoMatch == [ok |-> FALSE, pos |-> 0, has |-> FALSE, val |-> 0]
Matched(p) == [ok |-> p # 0, pos |-> p, has |-> FALSE, val |-> 0]
Converted(p, v) == [ok |-> TRUE, pos |-> p, has |-> TRUE, val |-> v]

\* (*ss).scanNumber and strconv.ParseInt: digits s[r..e-1], with the sign
\* accepted at s[q] when r > q.
scanNumber(s, q, r, e) ==
    IF e = r THEN NoMatch
    ELSE Converted(e, IF s[q] = "-" THEN 0 - ParseDigits(SubSeq(s, r, e - 1))
                      ELSE ParseDigits(SubSeq(s, r, e - 1)))

\* s.accept(sign), then the digits.
scanSigned(s, q, r) == scanNumber(s, q, r, SkipDigits(s, r))

\* s.notEOF() after the spaces were skipped to q (0: a newline was met).
scanIntAt(s, q) ==
    IF q = 0 \/ q > Len(s) THEN NoMatch
    ELSE scanSigned(s, q, IF s[q] \in {"+", "-"} THEN q + 1 ELSE q)

\* The %d verb: (*ss).scanInt.  Skips spaces, accepts one sign, needs at
\* least one digit.
scanInt(s, p) == scanIntAt(s, SkipSpace(s, p))

RECURSIVE SkipWord(_, _)
SkipWord(s, p) ==
    IF p <= Len(s) /\ ~isSpace(s[p]) THEN SkipWord(s, p + 1) ELSE p

scanWord(s, q, e) == Converted(e, SubSeq(s, q, e - 1))

scanStringAt(s, q) ==
    IF q = 0 \/ q > Len(s) THEN NoMatch ELSE scanWord(s, q, SkipWord(s, q))

\* The %s verb: (*ss).convertString.  Skips spaces, needs input, returns the
\* next space-delimited word.
scanString(s, p) == scanStringAt(s, SkipSpace(s, p))

\* (*ss).advance over one literal character of the format: no match when
\* the input is at its end or holds another character.
scanLiteral(s, p, c) ==
    IF p > Len(s) \/ s[p] # c THEN NoMatch ELSE Matched(p + 1)

\* (*ss).advance over a space of the format that follows no newline: the
\* input must be at its end or hold a space that is not a newline; further
\* spaces are skipped.
RECURSIVE SkipBlanks(_, _)
SkipBlanks(s, p) ==
    IF p <= Len(s) /\ isSpace(s[p]) /\ s[p] # "\n" THEN SkipBlanks(s, p + 1) ELSE p

scanFormatSpace(s, p) ==
    IF p > Len(s) THEN Matched(p)
    ELSE IF ~isSpace(s[p]) \/ s[p] = "\n" THEN NoMatch
    ELSE Matched(SkipBlanks(s, p + 1))

\* The items of a format: a verb, a literal character, a space.
Verb(v) == <<"%", v>>
Lit(c) == <<"lit", c>>
Space == <<"space", " ">>

RECURSIVE Lits(_)
Lits(chars) == IF chars = <<>> THEN <<>> ELSE <<Lit(Head(chars))>> \o Lits(Tail(chars))

scanItem(s, p, item) ==
    IF item[1] = "lit" THEN scanLiteral(s, p, item[2])
    ELSE IF item[1] = "space" THEN scanFormatSpace(s, p)
    ELSE IF item[2] = "d" THEN scanInt(s, p)
    ELSE scanString(s, p)

\* (*ss).doScanf: the items of format from the i-th on, against s from
\* position p on.  vals are the operands assigned so far; they stay
\* assigned when a later item fails.  [err, vals]
RECURSIVE doScanf(_, _, _, _, _)
RECURSIVE doScanfItem(_, _, _, _, _)
doScanf(s, p, format, i, vals) ==
    IF i > Len(format) THEN [err |-> FALSE, vals |-> vals]
    ELSE doScanfItem(s, format, i, vals, scanItem(s, p, format[i]))

doScanfItem(s, format, i, vals, r) ==
    IF ~r.ok THEN [err |-> TRUE, vals |-> vals]
    ELSE doScanf(s, r.pos, format, i + 1, IF r.has THEN Append(vals, r.val) ELSE vals)

Sscanf(s, format) == doScanf(s, 1, format, 1, <<>>)

\* "%d:[%d]%s"
FormatBindingCountType ==
    <<Verb("d"), Lit(":"), Lit("["), Verb("d"), Lit("]"), Verb("s")>>

\* "%d:%s"
FormatBindingType == <<Verb("d"), Lit(":"), Verb("s")>>

\* The operands &desc.binding, &desc.count, &typeName after a scan.
AssignBindingCountType(desc, r) ==
    [err |-> r.err,
     desc |-> [binding |-> IF Len(r.vals) >= 1 THEN r.vals[1] ELSE desc.binding,
               count |-> IF Len(r.vals) >= 2 THEN r.vals[2] ELSE desc.count,
               _type |-> desc._type],
     typeName |-> IF Len(r.vals) >= 3 THEN r.vals[3] ELSE <<>>]

\* The operands &desc.binding, &typeName after a scan.
AssignBindingType(desc, r) ==
    [err |-> r.err,
     desc |-> [binding |-> IF Len(r.vals) >= 1 THEN r.vals[1] ELSE desc.binding,
               count |-> desc.count,
               _type |-> desc._type],
     typeName |-> IF Len(r.vals) >= 2 THEN r.vals[2] ELSE <<>>]

\* fmt.Sscanf(def, "%d:[%d]%s", &desc.binding, &desc.count, &typeName)
SscanfBindingCountType(def, desc) ==
    AssignBindingCountType(desc, Sscanf(def, FormatBindingCountType))

\* fmt.Sscanf(def, "%d:%s", &desc.binding, &typeName)
SscanfBindingType(def, desc) ==
    AssignBindingType(desc, Sscanf(def, FormatBindingType))

\* strings.Split(s, sep) for a one-character sep: never empty; "" gives
\* one empty token.
RECURSIVE SplitFrom(_, _, _, _)
SplitFrom(s, sep, p, cur) ==
    IF p > Len(s) THEN <<cur>>
    ELSE IF s[p] = sep THEN <<cur>> \o SplitFrom(s, sep, p + 1, <<>>)
    ELSE SplitFrom(s, sep, p + 1, Append(cur, s[p]))
Split(s, sep) == SplitFrom(s, sep, 1, <<>>)

\* The zero value of descriptor.
ZeroDescriptor == [binding |-> 0, _type |-> descriptorTypeBuffer, count |-> 0]

\* desc.count = 1 and the second scan, when the first one failed.
SecondScan(def, first) ==
    IF ~first.err THEN first
    ELSE SscanfBindingType(def, [first.desc EXCEPT !.count = 1])

\* The two scans of one token of parseDescriptorSetLayout's loop body.
ScanDescriptor(def) == SecondScan(def, SscanfBindingCountType(def, ZeroDescriptor))

\* A loop that builds the layout back to front.
PrependDescriptor(lay, desc) == <<desc>> \o lay

\* layout = append(layout, desc)
AppendDescriptor(lay, desc) == Append(lay, desc)

\* The loop of parseDescriptorSetLayout over descriptors[i..]; r is what the
\* scans made of descriptors[i].  [layout, err]
RECURSIVE ParseDescriptors(_, _, _)
RECURSIVE ParseDescriptor(_, _, _, _)
ParseDescriptors(descriptors, i, lay) ==
    IF i > Len(descriptors) THEN [layout |-> lay, err |-> ""]
    ELSE ParseDescriptor(descriptors, i, lay, ScanDescriptor(descriptors[i]))

ParseDescriptor(descriptors, i, lay, r) ==
    IF r.err THEN [layout |-> <<>>, err |-> "scan"]
    ELSE IF r.typeName \notin {S_buffer, S_image}
      THEN [layout |-> <<>>, err |-> "unknown descriptor type"]
    ELSE ParseDescriptors(descriptors, i + 1,
           AppendDescriptor(lay,
             [r.desc EXCEPT !._type = IF r.typeName = S_buffer
                                      THEN descriptorTypeBuffer
                                      ELSE descriptorTypeImage]))

parseDescriptorSetLayout(def) == ParseDescriptors(Split(def, ","), 1, <<>>)

(***************************************************************************)
(* The ABI artifact emitters.  A printed declaration is kept as the        *)
(* operands of its printf calls.                                           *)
(***************************************************************************)
\* The switch on desc._type of generateHeader.
HeaderTypeName(desc) ==
    IF desc._type = descriptorTypeBuffer THEN "buffer"
    ELSE IF desc._type = descriptorTypeImage THEN "image" ELSE ""

\* The switch on desc._type of generateGo and generateGoFallback.
GoTypeName(desc) ==
    IF desc._type = descriptorTypeBuffer THEN "Buffer"
    ELSE IF desc._type = descriptorTypeImage THEN "Image" ELSE ""

\* generateHeader's field: "\tstruct %s_descriptor binding%d", then "[%d]"
\* when desc.count > 1, then ";\n".
HeaderField(desc) ==
    [type |-> HeaderTypeName(desc),
     field |-> <<"binding", Itoa(desc.binding)>>,
     array |-> IF desc.count > 1 THEN <<Itoa(desc.count)>> ELSE <<>>]

generateHeader(name, lay) ==
    [struct |-> name \o "_descriptor_set_layout",
     fields |-> [i \in 1..Len(lay) |-> HeaderField(lay[i])],
     begin |-> name \o "_coroutine_begin",
     await |-> name \o "_coroutine_await",
     destroy |-> name \o "_coroutine_destroy",
     info |-> name \o "_program_info"]

\* args of generateGo's accessor.
GoArgs(desc) == IF desc.count > 1 THEN "index int" ELSE ""

\* index of generateGo's accessor.
GoIndex(desc) == IF desc.count > 1 THEN "[index]" ELSE ""

\* generateGo's accessor: "func (l *%sDescriptorSetLayout) Binding%d(%s)
\* *cpu.%sDescriptor", returning &l.binding%d%s.
GoAccessor(desc) ==
    [method |-> <<"Binding", Itoa(desc.binding)>>,
     args |-> GoArgs(desc),
     result |-> GoTypeName(desc),
     field |-> <<"binding", Itoa(desc.binding)>>,
     index |-> GoIndex(desc)]

\* A fallback that takes the index whenever there is any descriptor at all.
FallbackArgsAnyCount(desc) == IF desc.count > 0 THEN "index int" ELSE ""

\* args of generateGoFallback's accessor.
FallbackArgs(desc) == IF desc.count > 1 THEN "index int" ELSE ""

\* generateGoFallback's accessor: the same signature, a body that panics.
FallbackAccessor(desc) ==
    [method |-> <<"Binding", Itoa(desc.binding)>>,
     args |-> FallbackArgs(desc),
     result |-> GoTypeName(desc),
     body |-> "panic(\"unsupported\")"]

\* format.Source of the generated Go file: a method name must be an
\* identifier, which "Binding-1" is not.
GoSourceFormats(lay) == \A i \in 1..Len(lay) : lay[i].binding >= 0

generateGo(hexSum, lay) ==
    [hash |-> hexSum, accessors |-> [i \in 1..Len(lay) |-> GoAccessor(lay[i])]]

generateGoFallback(lay) ==
    [hash |-> "", accessors |-> [i \in 1..Len(lay) |-> FallbackAccessor(lay[i])]]

(***************************************************************************)
(* The -layout texts the parser is run on: every token of the grammar      *)
(* within the bounds, and tokens that stray from it one way each.          *)
(***************************************************************************)
KindChars(k) == IF k = "buffer" THEN S_buffer ELSE S_image

TokenText(b, hasCount, c, k) ==
    Itoa(b) \o <<":">>
      \o (IF hasCount THEN <<"[">> \o Itoa(c) \o <<"]">> ELSE <<>>)
      \o KindChars(k)

GrammarTokens ==
    {[text |-> TokenText(b, FALSE, 0, k),
      binding |-> b, hasCount |-> FALSE, count |-> 0, kind |-> k]
       : b \in 0..MaxBinding, k \in {"buffer", "image"}}
    \cup
    {[text |-> TokenText(bc[1], TRUE, bc[2], k),
      binding |-> bc[1], hasCount |-> TRUE, count |-> bc[2], kind |-> k]
       : bc \in (0..MaxBinding) \X (1..MaxCount), k \in {"buffer", "image"}}

VariantTokens ==
    {
      [text |-> <<>>,
       binding |-> 0, hasCount |-> FALSE, count |-> 0, kind |-> "buffer"],
      [text |-> <<" ","0",":","b","u","f","f","e","r">>,
       binding |-> 0, hasCount |-> FALSE, count |-> 0, kind |-> "buffer"],
      [text |-> <<"0",":"," ","i","m","a","g","e">>,
       binding |-> 0, hasCount |-> FALSE, count |-> 0, kind |-> "image"],
      [text |-> <<"0",":","b","u","f","f","e","r"," ","x">>,
       binding |-> 0, hasCount |-> FALSE, count |-> 0, kind |-> "buffer"],
      [text |-> <<"0",":","[","2","]"," ","i","m","a","g","e">>,
       binding |-> 0, hasCount |-> TRUE, count |-> 2, kind |-> "image"],
      [text |-> <<"0",":","["," ","2","]","b","u","f","f","e","r">>,
       binding |-> 0, hasCount |-> TRUE, count |-> 2, kind |-> "buffer"],
      [text |-> <<"0"," ",":","b","u","f","f","e","r">>,
       binding |-> 0, hasCount |-> FALSE, count |-> 0, kind |-> "buffer"],
      [text |-> <<"0",":","s","s","b","o">>,
       binding |-> 0, hasCount |-> FALSE, count |-> 0, kind |-> "buffer"],
      [text |-> <<"0",":">>,
       binding |-> 0, hasCount |-> FALSE, count |-> 0, kind |-> "buffer"],
      [text |-> <<":","b","u","f","f","e","r">>,
       binding |-> 0, hasCount |-> FALSE, count |-> 0, kind |-> "buffer"],
      [text |-> <<"0","b","u","f","f","e","r">>,
       binding |-> 0, hasCount |-> FALSE, count |-> 0, kind |-> "buffer"],
      [text |-> <<"0",":","[","2","b","u","f","f","e","r">>,
       binding |-> 0, hasCount |-> TRUE, count |-> 2, kind |-> "buffer"],
      [text |-> <<"0",":","[","2","]">>,
       binding |-> 0, hasCount |-> TRUE, count |-> 2, kind |-> "buffer"],
      [text |-> <<"0",":","b","u","f","f","e","r","x">>,
       binding |-> 0, hasCount |-> FALSE, count |-> 0, kind |-> "buffer"],
      [text |-> <<"x",":","i","m","a","g","e">>,
       binding |-> 0, hasCount |-> FALSE, count |-> 0, kind |-> "image"],
      [text |-> <<"0",":","[","]","i","m","a","g","e">>,
       binding |-> 0, hasCount |-> FALSE, count |-> 0, kind |-> "image"],
      [text |-> <<"1",":","[","2","]","s","s","b","o">>,
       binding |-> 1, hasCount |-> TRUE, count |-> 2, kind |-> "buffer"],
      [text |-> <<"+","1",":","i","m","a","g","e">>,
       binding |-> 1, hasCount |-> FALSE, count |-> 0, kind |-> "image"],
      [text |-> <<"-","1",":","b","u","f","f","e","r">>,
       binding |-> -1, hasCount |-> FALSE, count |-> 0, kind |-> "buffer"],
      [text |-> <<"0",":","[","-","1","]","i","m","a","g","e">>,
       binding |-> 0, hasCount |-> TRUE, count |-> -1, kind |-> "image"],
      [text |-> <<"0",":","[","0","]","b","u","f","f","e","r">>,
       binding |-> 0, hasCount |-> TRUE, count |-> 0, kind |-> "buffer"]
    }

TokenSet == GrammarTokens \cup VariantTokens

RECURSIVE JoinTexts(_)
JoinTexts(toks) ==
    IF toks = <<>> THEN <<>>
    ELSE IF Len(toks) = 1 THEN toks[1].text
    ELSE toks[1].text \o <<",">> \o JoinTexts(Tail(toks))

TokenSeqs == UNION {[1..n -> TokenSet] : n \in 1..MaxTokens}

\* The grammar binding:kind | binding:[count]kind, an integer being an
\* optional sign and decimal digits, kind being buffer or image.
IntegerEnd(t, p) ==
    LET r == IF p <= Len(t) /\ t[p] \in {"+", "-"} THEN p + 1 ELSE p
        e == SkipDigits(t, r)
    IN IF e = r THEN 0 ELSE e

IsKind(t, p) == SubSeq(t, p, Len(t)) \in {S_buffer, S_image}

WellFormedToken(t) ==
    LET e == IntegerEnd(t, 1) IN
    /\ e # 0
    /\ e <= Len(t)
    /\ t[e] = ":"
    /\ \/ IsKind(t, e + 1)
       \/ /\ e + 1 <= Len(t)
          /\ t[e + 1] = "["
          /\ LET f == IntegerEnd(t, e + 2) IN
             /\ f # 0
             /\ f <= Len(t)
             /\ t[f] = "]"
             /\ IsKind(t, f + 1)

(***************************************************************************)
(* The parser and the emitters as the compile command runs them.           *)
(***************************************************************************)
ProgramName == "example"

\* hex.EncodeToString(sha256.Sum256(glsl)): one digest per content.
Sha256Hex(content) == <<"sha256", content>>

SourceHash == Sha256Hex("example.comp")

LayoutStart ==
    /\ tokens \in TokenSeqs
    /\ layoutDef = JoinTexts(tokens)
    /\ layoutPc = "parse"
    /\ layout = <<>>
    /\ layoutErr = ""
    /\ header = <<>>
    /\ goImpl = <<>>
    /\ goFallback = <<>>

\* layout, err := parseDescriptorSetLayout(*descSetLayout)
ParseLayout ==
    /\ layoutPc = "parse"
    /\ LET r == parseDescriptorSetLayout(layoutDef) IN
       /\ layout' = r.layout
       /\ layoutErr' = r.err
       /\ layoutPc' = IF r.err = "" THEN "emit" ELSE "failed"
    /\ UNCHANGED <<tokens, layoutDef, header, goImpl, goFallback>>
    /\ UNCHANGED notLayoutVars

\* header := generateHeader(..); goImpl := generateGo(..);
\* goFallbackImpl := generateGoFallback(..)
Generate ==
    /\ layoutPc = "emit"
    /\ header' = generateHeader(ProgramName, layout)
    /\ IF GoSourceFormats(layout)
       THEN /\ goImpl' = generateGo(SourceHash, layout)
            /\ goFallback' = generateGoFallback(layout)
            /\ layoutPc' = "done"
       ELSE /\ UNCHANGED <<goImpl, goFallback>>
            /\ layoutPc' = "panic"
    /\ UNCHANGED <<tokens, layoutDef, layout, layoutErr>>
    /\ UNCHANGED notLayoutVars


(***************************************************************************)
(* parseProgramParams.                                                     *)
(***************************************************************************)
\* strings.HasPrefix
HasPrefix(s, prefix) ==
    Len(s) >= Len(prefix) /\ SubSeq(s, 1, Len(prefix)) = prefix

\* strings.Index, counted from 1; 0 when substr is not in s (Go's -1).
Index(s, substr) ==
    LET at == {i \in 1..(Len(s) - Len(substr) + 1) :
                 SubSeq(s, i, i + Len(substr) - 1) = substr}
    IN IF at = {} THEN 0 ELSE CHOOSE i \in at : \A j \in at : i <= j

\* "LocalSize %d %d %d"
FormatLocalSize ==
    Lits(S_LocalSize) \o <<Space, Verb("d"), Space, Verb("d"), Space, Verb("d")>>

\* The operands &s[0], &s[1], &s[2] after a scan.
AssignLocalSize(size, r) ==
    [err |-> r.err,
     size |-> [k \in 1..3 |-> IF Len(r.vals) >= k THEN r.vals[k] ELSE size[k]]]

\* fmt.Sscanf(sub, "LocalSize %d %d %d", &s[0], &s[1], &s[2]): size is
\* p.workgroupSize.  [err, size]
SscanfLocalSize(sub, size) == AssignLocalSize(size, Sscanf(sub, FormatLocalSize))

\* p.memorySize = 1e5
memorySize == 100000

\* var p program, after p.memorySize is set.
ZeroProgram ==
    [hasControlBarriers |-> FALSE, workgroupSize |-> <<0, 0, 0>>,
     memorySize |-> memorySize]

\* The position of the next '\n' of buf at or after p; 0 when there is none.
RECURSIVE NextNewline(_, _)
NextNewline(buf, p) ==
    IF p > Len(buf) THEN 0
    ELSE IF buf[p] = "\n" THEN p
    ELSE NextNewline(buf, p + 1)

\* case strings.HasPrefix(line, "OpExecutionMode")
IsModeLine(line) == HasPrefix(line, S_OpExecutionMode)

\* The for loop of parseProgramParams: stdout.ReadString('\n') from
\* position p of the buffer until io.EOF.  A last line without its newline
\* comes with io.EOF and is not looked at.  [p, err]
RECURSIVE ScanLines(_, _, _)
RECURSIVE ReadLine(_, _, _, _)
RECURSIVE ScanLine(_, _, _, _)
RECURSIVE ScanLocalSize(_, _, _, _, _)
RECURSIVE ScannedLocalSize(_, _, _, _)
ScanLines(buf, p, pr) == ReadLine(buf, p, pr, NextNewline(buf, p))

\* line, err := stdout.ReadString('\n'); nl is the position of the newline,
\* 0 when the buffer ends before one.
ReadLine(buf, p, pr, nl) ==
    IF nl = 0 THEN [p |-> pr, err |-> ""]
    ELSE ScanLine(buf, nl, pr, SubSeq(buf, p, nl))

\* The switch on line.
ScanLine(buf, nl, pr, line) ==
    IF IsModeLine(line)
      THEN ScanLocalSize(buf, nl, pr, line, Index(line, S_LocalSizeSp))
    ELSE IF Index(line, S_OpControlBarrier) # 0
      THEN ScanLines(buf, nl + 1, [pr EXCEPT !.hasControlBarriers = TRUE])
    ELSE ScanLines(buf, nl + 1, pr)

\* i := strings.Index(line, "LocalSize ") (0 for Go's -1), then the Sscanf
\* of line[i:].
ScanLocalSize(buf, nl, pr, line, i) ==
    IF i = 0 THEN [p |-> pr, err |-> "unknown execution mode"]
    ELSE ScannedLocalSize(buf, nl, pr,
           SscanfLocalSize(SubSeq(line, i, Len(line)), pr.workgroupSize))

ScannedLocalSize(buf, nl, pr, r) ==
    IF r.err THEN [p |-> [pr EXCEPT !.workgroupSize = r.size], err |-> "scan"]
    ELSE ScanLines(buf, nl + 1, [pr EXCEPT !.workgroupSize = r.size])

parseProgramParams(runOk, stdout) ==
    IF ~runOk THEN [p |-> ZeroProgram, err |-> "spirv-dis"]
    ELSE ScanLines(stdout, 1, ZeroProgram)

\* The disassemblies parseProgramParams is run on.
LocalSizeLine(x, y, z) ==
    S_OpExecutionMode \o <<" ", "%", "4", " ">> \o S_LocalSize
      \o <<" ">> \o Itoa(x) \o <<" ">> \o Itoa(y) \o <<" ">> \o Itoa(z)

DisasmLines ==
    {LocalSizeLine(x, y, 1) : x \in 0..MaxLocalSize, y \in 0..MaxLocalSize}
    \cup
    {
      <<"O","p","E","x","e","c","u","t","i","o","n","M","o","d","e"," ","%","4"," ","L","o","c","a","l","S","i","z","e"," ","2"," ","2">>,
      <<"O","p","E","x","e","c","u","t","i","o","n","M","o","d","e"," ","%","4"," ","L","o","c","a","l","S","i","z","e"," ","x"," ","1"," ","1">>,
      <<"O","p","E","x","e","c","u","t","i","o","n","M","o","d","e"," ","%","4"," ","L","o","c","a","l","S","i","z","e"," ","-","1"," ","1"," ","1">>,
      <<"O","p","E","x","e","c","u","t","i","o","n","M","o","d","e"," ","%","4"," ","O","r","i","g","i","n","U","p","p","e","r","L","e","f","t">>,
      <<"O","p","E","x","e","c","u","t","i","o","n","M","o","d","e","I","d"," ","%","4"," ","L","o","c","a","l","S","i","z","e","I","d"," ","%","7"," ","%","8"," ","%","9">>,
      <<"O","p","C","o","n","t","r","o","l","B","a","r","r","i","e","r"," ","%","2"," ","%","2"," ","%","2","6","4">>,
      <<"O","p","C","a","p","a","b","i","l","i","t","y"," ","S","h","a","d","e","r">>
    }

RECURSIVE JoinLines(_, _)
JoinLines(ls, terminated) ==
    IF ls = <<>> THEN <<>>
    ELSE IF Len(ls) = 1 THEN ls[1] \o (IF terminated THEN <<"\n">> ELSE <<>>)
    ELSE ls[1] \o <<"\n">> \o JoinLines(Tail(ls), terminated)

DisasmTexts ==
    {JoinLines(ls, t) : ls \in UNION {[1..n -> DisasmLines] : n \in 0..MaxLines},
                        t \in BOOLEAN}

ParamsStart ==
    /\ disRunOk \in BOOLEAN
    /\ disasm \in DisasmTexts
    /\ paramsPc = "parse"
    /\ prog = ZeroProgram
    /\ progErr = ""

\* prog, err := parseProgramParams(spirv)
ParseParams ==
    /\ paramsPc = "parse"
    /\ LET r == parseProgramParams(disRunOk, disasm) IN
       /\ prog' = r.p
       /\ progErr' = r.err
       /\ paramsPc' = "done"
    /\ UNCHANGED <<disRunOk, disasm>>
    /\ UNCHANGED notParamsVars

(***************************************************************************)
(* generateImpl and the symbol renames of main.                            *)
(***************************************************************************)
generateImpl(name, p) ==
    [info |-> name \o "_program_info",
     has_cbarriers |-> IF p.hasControlBarriers THEN 1 ELSE 0,
     min_memory_size |-> p.memorySize,
     desc_set_size |-> "sizeof(struct " \o name \o "_descriptor_set_layout)",
     workgroup_size_x |-> p.workgroupSize[1],
     workgroup_size_y |-> p.workgroupSize[2],
     workgroup_size_z |-> p.workgroupSize[3],
     begin |-> name \o "_coroutine_begin",
     await |-> name \o "_coroutine_await",
     destroy |-> name \o "_coroutine_destroy"]

symbols ==
    <<"coroutine_begin", "coroutine_await", "coroutine_destroy",
      "coroutine_begin.resume", "coroutine_begin.destroy",
      "coroutine_begin.cleanup">>

\* A renaming that puts the program's name behind the symbol.
RenamesSuffixed(name) ==
    [i \in 1..Len(symbols) |-> [old |-> symbols[i], new |-> symbols[i] \o "_" \o name]]

\* rename := fmt.Sprintf("%s=%s_%s", sym, name, sym), one per symbol.
Renames(name) ==
    [i \in 1..Len(symbols) |-> [old |-> symbols[i], new |-> name \o "_" \o symbols[i]]]

\* The files main writes after objcopy, in order.
ArtifactFiles(name) ==
    <<name \o "_abi.h", name \o "_abi.c", name \o "_abi.go",
      name \o "_abi_nosupport.go", "support.c", "runtime.h", "abi.h">>

(***************************************************************************)
(* compileProgram, one action per Vulkan call.  A deferred call is kept    *)
(* on defers and run, last first, when the function returns or panics.     *)
(***************************************************************************)
Destroy(h) == [op |-> "destroy", obj |-> h]
Free(m) == [op |-> "free", obj |-> m]
Remove(f) == [op |-> "remove", obj |-> f]

objFile == "reactor_jit_llvm_0000_ComputeProgram.o"

mainUnchangedByVk ==
    UNCHANGED <<nargs, mainPc, exitCode, ran, failed, impl, renames, written, qprops>>

\* block := C.malloc(..); defer C.free(block) for each of blocks; then a
\* vkCreate* call that either fails (return nil, err) or yields handle h,
\* with defer vkDestroy*(h) when the code defers one.
CreateStep(blocks, h, deferDestroy, next) ==
    \E ok \in BOOLEAN :
      LET d1 == defers \o blocks IN
      /\ heap' = heap \cup {blocks[i].obj : i \in 1..Len(blocks)}
      /\ IF ok
         THEN /\ created' = Append(created, h)
              /\ defers' = IF deferDestroy THEN Append(d1, Destroy(h)) ELSE d1
              /\ vkErr' = vkErr
              /\ vkPc' = next
         ELSE /\ created' = created
              /\ defers' = d1
              /\ vkErr' = "error code"
              /\ vkPc' = "defers"
      /\ UNCHANGED destroyed
      /\ mainUnchangedByVk
      /\ UNCHANGED <<layoutVars, paramsVars, notCompileVars>>

VkCreateInstance ==
    /\ mainPc = "compile" /\ vkPc = "instance"
    /\ CreateStep(<<>>, "instance", TRUE, "enumerate")

VkEnumeratePhysicalDevices ==
    /\ mainPc = "compile" /\ vkPc = "enumerate"
    /\ \E ok \in BOOLEAN :
         IF ok THEN vkPc' = "queue" /\ vkErr' = vkErr
         ELSE vkPc' = "defers" /\ vkErr' = "error code"
    /\ UNCHANGED <<created, destroyed, heap, defers>>
    /\ mainUnchangedByVk
    /\ UNCHANGED <<layoutVars, paramsVars, notCompileVars>>

\* The first queue family with the compute bit; 0 when there is none
\* (qidx == -1).
ComputeQueue(props) ==
    LET with == {i \in 1..Len(props) : props[i]} IN
    IF with = {} THEN 0 ELSE CHOOSE i \in with : \A j \in with : i <= j

\* &qprops[0] panics when there are no queue families at all.
FindComputeQueue ==
    /\ mainPc = "compile" /\ vkPc = "queue"
    /\ IF qprops = <<>> THEN vkPc' = "defers" /\ vkErr' = "panic: index out of range"
       ELSE IF ComputeQueue(qprops) = 0
         THEN vkPc' = "defers" /\ vkErr' = "no compute queues available"
       ELSE vkPc' = "device" /\ vkErr' = vkErr
    /\ UNCHANGED <<created, destroyed, heap, defers>>
    /\ mainUnchangedByVk
    /\ UNCHANGED <<layoutVars, paramsVars, notCompileVars>>

VkCreateDevice ==
    /\ mainPc = "compile" /\ vkPc = "device"
    /\ CreateStep(<<Free("qinfMem")>>, "device", TRUE, "module")

VkCreateShaderModule ==
    /\ mainPc = "compile" /\ vkPc = "module"
    /\ CreateStep(<<Free("spirvMem")>>, "shaderModule", TRUE, "dsl")

VkCreateDescriptorSetLayout ==
    /\ mainPc = "compile" /\ vkPc = "dsl"
    /\ CreateStep(<<Free("bindingsMem")>>, "descriptorSetLayout", TRUE, "pipelayout")

VkCreatePipelineLayout ==
    /\ mainPc = "compile" /\ vkPc = "pipelayout"
    /\ CreateStep(<<Free("descSetLayoutMem")>>, "pipelineLayout", TRUE, "pipeline")

\* No vkDestroyPipeline is deferred for pipe.
VkCreateComputePipelines ==
    /\ mainPc = "compile" /\ vkPc = "pipeline"
    /\ CreateStep(<<Free("mainName")>>, "pipeline", FALSE, "readobj")

\* defer os.Remove(objFile); return os.ReadFile(objFile)
ReadObjFile ==
    /\ mainPc = "compile" /\ vkPc = "readobj"
    /\ defers' = Append(defers, Remove(objFile))
    /\ \E ok \in BOOLEAN : vkErr' = IF ok THEN "" ELSE "open: no such file"
    /\ vkPc' = "defers"
    /\ UNCHANGED <<created, destroyed, heap>>
    /\ mainUnchangedByVk
    /\ UNCHANGED <<layoutVars, paramsVars, notCompileVars>>

\* The function is returning (or panicking): its last deferred call runs.
RunDeferred ==
    /\ mainPc = "compile" /\ vkPc = "defers" /\ defers # <<>>
    /\ LET d == defers[Len(defers)] IN
       /\ defers' = SubSeq(defers, 1, Len(defers) - 1)
       /\ destroyed' = IF d.op = "destroy" THEN Append(destroyed, d.obj) ELSE destroyed
       /\ heap' = IF d.op = "free" THEN heap \ {d.obj} ELSE heap
    /\ UNCHANGED <<created, vkPc, vkErr>>
    /\ mainUnchangedByVk
    /\ UNCHANGED <<layoutVars, paramsVars, notCompileVars>>

(***************************************************************************)
(* main of the compile command, one action per stage.                      *)
(***************************************************************************)
Stages ==
    <<"args", "layout", "read", "glsl", "params", "compile", "getwd",
      "generate", "syso", "objcopy">>

NextStage(stage) ==
    IF stage = "objcopy" THEN "files"
    ELSE Stages[(CHOOSE i \in 1..Len(Stages) : Stages[i] = stage) + 1]

\* A stage that prints its diagnostic and carries on with the next stage.
ReportOnly(stage, code) ==
    /\ mainPc' = NextStage(stage)
    /\ exitCode' = exitCode
    /\ ran' = Append(ran, stage)
    /\ failed' = Append(failed, stage)

\* fmt.Fprintf(os.Stderr, ..); os.Exit(code)
Exit(stage, code) ==
    /\ mainPc' = "exited"
    /\ exitCode' = code
    /\ ran' = Append(ran, stage)
    /\ failed' = Append(failed, stage)

\* The stage returned no error: main goes on.
Proceed(stage) ==
    /\ mainPc' = NextStage(stage)
    /\ exitCode' = exitCode
    /\ ran' = Append(ran, stage)
    /\ failed' = failed

vkUnchanged == UNCHANGED <<qprops, vkPc, created, destroyed, heap, defers, vkErr>>

\* if flag.NArg() != 1 { .. os.Exit(1) }
CheckArgs ==
    /\ mainPc = "args"
    /\ IF nargs # 1 THEN Exit("args", 1) ELSE Proceed("args")
    /\ UNCHANGED <<nargs, impl, renames, written>>
    /\ vkUnchanged
    /\ UNCHANGED <<layoutVars, paramsVars, notCompileVars>>

\* layout, err := parseDescriptorSetLayout(*descSetLayout)
MainParseLayout ==
    /\ mainPc = "layout"
    /\ LET r == parseDescriptorSetLayout(layoutDef) IN
       /\ layout' = r.layout
       /\ layoutErr' = r.err
       /\ IF r.err # "" THEN Exit("layout", 1) ELSE Proceed("layout")
    /\ UNCHANGED <<tokens, layoutDef, layoutPc, header, goImpl, goFallback>>
    /\ UNCHANGED <<nargs, impl, renames, written>>
    /\ vkUnchanged
    /\ UNCHANGED <<paramsVars, notCompileVars>>

\* A stage whose outcome is the environment's: os.ReadFile, glslToSPIRV
\* (glslangValidator), os.Getwd.
ExternalStage(stage) ==
    /\ mainPc = stage
    /\ \E ok \in BOOLEAN : IF ok THEN Proceed(stage) ELSE Exit(stage, 2)
    /\ UNCHANGED <<nargs, impl, renames, written>>
    /\ vkUnchanged
    /\ UNCHANGED <<layoutVars, paramsVars, notCompileVars>>

ReadSource == ExternalStage("read")

GlslToSPIRV == ExternalStage("glsl")

\* prog, err := parseProgramParams(spirv)
MainParseParams ==
    /\ mainPc = "params"
    /\ LET r == parseProgramParams(disRunOk, disasm) IN
       /\ prog' = r.p
       /\ progErr' = r.err
       /\ IF r.err # "" THEN Exit("params", 1) ELSE Proceed("params")
    /\ UNCHANGED <<disRunOk, disasm, paramsPc>>
    /\ UNCHANGED <<nargs, impl, renames, written>>
    /\ vkUnchanged
    /\ UNCHANGED <<layoutVars, notCompileVars>>

\* obj, err := compileProgram(spirv, layout), once its deferred calls have
\* run.  A panic ends the process with exit code 2 as well.
CompileReturn ==
    /\ mainPc = "compile" /\ vkPc = "defers" /\ defers = <<>>
    /\ vkPc' = "returned"
    /\ IF vkErr # "" THEN Exit("compile", 2) ELSE Proceed("compile")
    /\ UNCHANGED <<nargs, impl, renames, written>>
    /\ UNCHANGED <<qprops, created, destroyed, heap, defers, vkErr>>
    /\ UNCHANGED <<layoutVars, paramsVars, notCompileVars>>

Getwd == ExternalStage("getwd")

\* header := generateHeader(..); impl := generateImpl(..);
\* goImpl := generateGo(..); goFallbackImpl := generateGoFallback(..).
\* generateGo panics when format.Source rejects its text.
GenerateAll ==
    /\ mainPc = "generate"
    /\ header' = generateHeader(ProgramName, layout)
    /\ impl' = generateImpl(ProgramName, prog)
    /\ IF GoSourceFormats(layout)
       THEN /\ goImpl' = generateGo(SourceHash, layout)
            /\ goFallback' = generateGoFallback(layout)
            /\ Proceed("generate")
       ELSE /\ UNCHANGED <<goImpl, goFallback>>
            /\ Exit("generate", 2)
    /\ UNCHANGED <<tokens, layoutDef, layoutPc, layout, layoutErr>>
    /\ UNCHANGED <<nargs, renames, written>>
    /\ vkUnchanged
    /\ UNCHANGED <<paramsVars, notCompileVars>>

\* os.WriteFile(syso, obj, 0644)
WriteSyso ==
    /\ mainPc = "syso"
    /\ \E ok \in BOOLEAN :
         IF ok THEN /\ written' = Append(written, ProgramName \o "_linux_amd64.syso")
                    /\ Proceed("syso")
         ELSE /\ written' = written
              /\ Exit("syso", 2)
    /\ UNCHANGED <<nargs, impl, renames>>
    /\ vkUnchanged
    /\ UNCHANGED <<layoutVars, paramsVars, notCompileVars>>

\* objcopy --redefine-sym .. syso
Objcopy ==
    /\ mainPc = "objcopy"
    /\ renames' = Renames(ProgramName)
    /\ \E ok \in BOOLEAN : IF ok THEN Proceed("objcopy") ELSE Exit("objcopy", 2)
    /\ UNCHANGED <<nargs, impl, written>>
    /\ vkUnchanged
    /\ UNCHANGED <<layoutVars, paramsVars, notCompileVars>>

\* One turn of the loop over files; main returns after the last.
WriteArtifact ==
    /\ mainPc = "files"
    /\ LET files == ArtifactFiles(ProgramName)
           k == Len(written)
       IN \E ok \in BOOLEAN :
            IF ok
            THEN /\ written' = Append(written, files[k])
                 /\ ran' = Append(ran, files[k])
                 /\ failed' = failed
                 /\ mainPc' = IF k = Len(files) THEN "exited" ELSE "files"
                 /\ exitCode' = IF k = Len(files) THEN 0 ELSE exitCode
            ELSE /\ written' = written
                 /\ Exit(files[k], 2)
    /\ UNCHANGED <<nargs, impl, renames>>
    /\ vkUnchanged
    /\ UNCHANGED <<layoutVars, paramsVars, notCompileVars>>

\* The command lines and environments main is run in.
MainTokens ==
    GrammarTokens \cup {t \in VariantTokens : t.text = <<>> \/ t.binding < 0}

MainDisasm ==
    {<<TRUE, LocalSizeLine(MaxLocalSize, 1, 1) \o <<"\n">>>>,
     <<TRUE, LocalSizeLine(1, 1, 1) \o <<"\n">> \o S_OpControlBarrier \o <<"\n">>>>,
     <<TRUE, S_OpExecutionMode \o <<" ">> \o S_LocalSize \o <<"\n">>>>,
     <<FALSE, <<>>>>}

QueueProps == UNION {[1..n -> BOOLEAN] : n \in 0..MaxQueues}

CompileStart ==
    /\ nargs \in 0..MaxArgs
    /\ tokens \in {<<t>> : t \in MainTokens}
    /\ layoutDef = JoinTexts(tokens)
    /\ layoutPc = "idle" /\ layout = <<>> /\ layoutErr = ""
    /\ header = <<>> /\ goImpl = <<>> /\ goFallback = <<>>
    /\ \E d \in MainDisasm : disRunOk = d[1] /\ disasm = d[2]
    /\ paramsPc = "idle" /\ prog = ZeroProgram /\ progErr = ""
    /\ mainPc = "args" /\ exitCode = -1 /\ ran = <<>> /\ failed = <<>>
    /\ impl = <<>> /\ renames = <<>> /\ written = <<>>
    /\ qprops \in QueueProps
    /\ vkPc = "instance" /\ created = <<>> /\ destroyed = <<>> /\ heap = {}
    /\ defers = <<>> /\ vkErr = ""

(***************************************************************************)
(* The example dispatch driver: the main goroutine and its workers.        *)
(***************************************************************************)
Workers == 0..(nthreads - 1)

\* example.ExampleProgramInfo: the program_info generateImpl emitted, for a
\* shader of workgroup size (1, 1, 1).
ExampleProgramInfo ==
    generateImpl(ProgramName, [ZeroProgram EXCEPT !.workgroupSize = <<1, 1, 1>>])

\* example.ExampleHash: the constant generateGo emitted when the artifact
\* was compiled.
ExampleHash == generateGo(Sha256Hex(builtFrom), <<>>).hash

\* The hash of the shader the program is expected to be.
ExpectedHash == Sha256Hex(current)

\* Prepare's check of its arguments: a thread count and grid dimensions
\* above zero.
PrepareAccepts(n, info, grid) == n > 0 /\ \A k \in 1..3 : grid[k] > 0

\* A driver that goes on to spawn its workers without calling Prepare.
DrvPrepareSkipped ==
    /\ drvPc = "prepare"
    /\ drvPc' = "spawn"
    /\ UNCHANGED <<nthreads, builtFrom, current, spawned, received, prepared, workerPc>>
    /\ UNCHANGED notDriverVars

\* ctx.Prepare(nthreads, example.ExampleProgramInfo, unsafe.Pointer(&descSet), 4, 3, 2)
DrvPrepare ==
    /\ drvPc = "prepare"
    /\ prepared' = [nthreads |-> nthreads, info |-> ExampleProgramInfo, grid |-> <<4, 3, 2>>]
    /\ drvPc' = IF PrepareAccepts(nthreads, ExampleProgramInfo, <<4, 3, 2>>)
                THEN "spawn" ELSE "panic"
    /\ UNCHANGED <<nthreads, builtFrom, current, spawned, received, workerPc>>
    /\ UNCHANGED notDriverVars

\* for i := 0; i < nthreads; i++ { i := i; go func() {..}() }
DrvSpawn ==
    /\ drvPc = "spawn"
    /\ IF spawned < nthreads
       THEN /\ workerPc' = [workerPc EXCEPT ![spawned] = "start"]
            /\ spawned' = spawned + 1
            /\ drvPc' = drvPc
       ELSE /\ drvPc' = "wait"
            /\ UNCHANGED <<workerPc, spawned>>
    /\ UNCHANGED <<nthreads, builtFrom, current, received, prepared>>
    /\ UNCHANGED notDriverVars

\* thread := cpu.NewThreadContext(); defer thread.Free(); and the call of
\* ctx.Dispatch(i, thread)
WorkerDispatch(i) ==
    /\ workerPc[i] = "start"
    /\ workerPc' = [workerPc EXCEPT ![i] = "dispatch"]
    /\ UNCHANGED <<nthreads, builtFrom, current, drvPc, spawned, received, prepared>>
    /\ UNCHANGED notDriverVars

\* ctx.Dispatch(i, thread) returns.
WorkerDispatched(i) ==
    /\ workerPc[i] = "dispatch"
    /\ workerPc' = [workerPc EXCEPT ![i] = "send"]
    /\ UNCHANGED <<nthreads, builtFrom, current, drvPc, spawned, received, prepared>>
    /\ UNCHANGED notDriverVars

\* A wait loop that stops one receive short.
AllButOneReceived(i) == i >= nthreads - 1

\* The wait loop's condition i < nthreads has become false.
AllReceived(i) == i >= nthreads

\* done <- struct{}{} of worker i meets <-done of the main goroutine: done
\* is unbuffered, so the send completes only with the receive.  The worker
\* then returns and its deferred thread.Free() runs.
Handoff(i) ==
    /\ workerPc[i] = "send"
    /\ drvPc = "wait"
    /\ ~AllReceived(received)
    /\ received' = received + 1
    /\ workerPc' = [workerPc EXCEPT ![i] = "exit"]
    /\ UNCHANGED <<nthreads, builtFrom, current, drvPc, spawned, prepared>>
    /\ UNCHANGED notDriverVars

\* The wait loop ends; img.Data() and intBuf are read (printed, encoded).
DrvReadback ==
    /\ drvPc = "wait"
    /\ AllReceived(received)
    /\ drvPc' = "readback"
    /\ UNCHANGED <<nthreads, builtFrom, current, spawned, received, prepared, workerPc>>
    /\ UNCHANGED notDriverVars

\* main returns; the deferred ctx.Free(), img.Free(), buffer.Free() run.
DrvReturn ==
    /\ drvPc = "readback"
    /\ drvPc' = "done"
    /\ UNCHANGED <<nthreads, builtFrom, current, spawned, received, prepared, workerPc>>
    /\ UNCHANGED notDriverVars

DriverStart ==
    /\ nthreads \in 1..MaxThreads
    /\ builtFrom \in 1..MaxRevisions
    /\ current \in 1..MaxRevisions
    /\ drvPc = "prepare"
    /\ spawned = 0
    /\ received = 0
    /\ prepared = <<>>
    /\ workerPc = [i \in Workers |-> "none"]

(***************************************************************************)
(* One workgroup of a program with control barriers, run by its driving    *)
(* thread: one coroutine per invocation, begun, awaited in turns and       *)
(* destroyed through the begin / await / destroy triple.                   *)
(***************************************************************************)
Invocations == 0..(nInv - 1)

\* A driving thread that keeps resuming one coroutine until it finishes.
RunToCompletion(i, finished) == IF finished THEN (i + 1) % nInv ELSE i

\* The invocation resumed after invocation i: the next one in turn.
RoundRobin(i, finished) == (i + 1) % nInv

\* begin: the coroutine of the next invocation is created, suspended at
\* its start.
CoBegin ==
    /\ wgPc = "begin"
    /\ coState' = [coState EXCEPT ![cursor] = "suspended"]
    /\ IF cursor + 1 = nInv
       THEN wgPc' = "await" /\ cursor' = 0
       ELSE wgPc' = wgPc /\ cursor' = cursor + 1
    /\ UNCHANGED <<nInv, nBarriers, reached, segments>>
    /\ UNCHANGED notBarrierVars

\* await: the coroutine at the cursor runs its next segment, up to its next
\* barrier or to its end.
CoAwait ==
    /\ wgPc = "await"
    /\ coState[cursor] = "suspended"
    /\ LET fin == reached[cursor] = nBarriers
           st == [coState EXCEPT ![cursor] = IF fin THEN "finished" ELSE "suspended"]
       IN /\ segments' = [segments EXCEPT ![cursor] = @ + 1]
          /\ reached' = [reached EXCEPT ![cursor] = IF fin THEN @ ELSE @ + 1]
          /\ coState' = st
          /\ IF \A j \in Invocations : st[j] = "finished"
             THEN wgPc' = "destroy" /\ cursor' = 0
             ELSE wgPc' = wgPc /\ cursor' = RoundRobin(cursor, fin)
    /\ UNCHANGED <<nInv, nBarriers>>
    /\ UNCHANGED notBarrierVars

\* destroy: the finished coroutines are released.
CoDestroy ==
    /\ wgPc = "destroy"
    /\ coState' = [coState EXCEPT ![cursor] = "destroyed"]
    /\ IF cursor + 1 = nInv
       THEN wgPc' = "done" /\ cursor' = 0
       ELSE wgPc' = wgPc /\ cursor' = cursor + 1
    /\ UNCHANGED <<nInv, nBarriers, reached, segments>>
    /\ UNCHANGED notBarrierVars

BarrierStart ==
    /\ nInv \in 1..MaxInvocations
    /\ nBarriers \in 0..MaxBarriers
    /\ wgPc = "begin"
    /\ cursor = 0
    /\ coState = [i \in Invocations |-> "none"]
    /\ reached = [i \in Invocations |-> 0]
    /\ segments = [i \in Invocations |-> 0]

(***************************************************************************)
(* main's program name, and the renaming of the object's symbols.          *)
(***************************************************************************)
\* The text of a sequence of characters, as one string.
RECURSIVE Concat(_)
Concat(cs) == IF cs = <<>> THEN "" ELSE cs[1] \o Concat(Tail(cs))

\* filepath.Base: trailing slashes are dropped, then everything up to the
\* last slash; "." for the empty path, "/" for a path of slashes only.
RECURSIVE TrimSlashes(_)
TrimSlashes(path) ==
    IF path # <<>> /\ path[Len(path)] = "/"
    THEN TrimSlashes(SubSeq(path, 1, Len(path) - 1))
    ELSE path

RECURSIVE LastElement(_, _)
LastElement(path, i) ==
    IF i = 0 THEN path
    ELSE IF path[i] = "/" THEN SubSeq(path, i + 1, Len(path))
    ELSE LastElement(path, i - 1)

BaseOfTrimmed(path, trimmed) ==
    IF path = <<>> THEN <<".">>
    ELSE IF trimmed = <<>> THEN <<"/">>
    ELSE LastElement(trimmed, Len(trimmed))

Base(path) == BaseOfTrimmed(path, TrimSlashes(path))

\* filepath.Ext: the suffix from the last dot of the last element on, or
\* nothing when that element has no dot.
RECURSIVE ExtFrom(_, _)
ExtFrom(path, i) ==
    IF i = 0 \/ path[i] = "/" THEN <<>>
    ELSE IF path[i] = "." THEN SubSeq(path, i, Len(path))
    ELSE ExtFrom(path, i - 1)

Ext(path) == ExtFrom(path, Len(path))

\* name = name[:len(name)-len(filepath.Ext(name))]
TrimExt(name) == SubSeq(name, 1, Len(name) - Len(Ext(name)))

\* name := filepath.Base(file), less its extension.
NameOf(path) == Concat(TrimExt(Base(path)))

\* objcopy --redefine-sym old=new: the symbol called old is called new
\* afterwards; every other symbol keeps its name.
Redefined(sym, rn) ==
    IF \E i \in 1..Len(rn) : rn[i].old = sym
    THEN rn[CHOOSE i \in 1..Len(rn) : rn[i].old = sym].new
    ELSE sym

RedefineSyms(syms, rn) == {Redefined(sym, rn) : sym \in syms}

\* The shader files main is run on.
SourceFiles ==
    { <<"e","x","a","m","p","l","e",".","c","o","m","p">>,
      <<"s","h","a","d","e","r","s","/","b","l","u","r",".","c","o","m","p">>,
      <<"a",".","b",".","c","o","m","p">>,
      <<"n","o","e","x","t">>,
      <<".","c","o","m","p">>,
      <<"x",".","d","/","k">>,
      <<"a","=","b",".","c","o","m","p">>,
      <<"/","s","/","k","-","1",".","g","l","s","l">>
    }

\* Symbols an object holds besides the coroutine's.
ExtraSymbols == {"memset", "memcpy", "coroutine_yield"}

\* The symbol tables of the objects compileProgram returns.
ObjectSymbols ==
    {{symbols[i] : i \in 1..Len(symbols)} \cup extra :
        extra \in {e \in SUBSET ExtraSymbols : Cardinality(e) <= MaxExtraSymbols}}

\* name := filepath.Base(file); name = name[:len(name)-len(filepath.Ext(name))]
DeriveName ==
    /\ namePc = "name"
    /\ progName' = NameOf(file)
    /\ namePc' = "generate"
    /\ UNCHANGED <<file, objSyms, symtab, nameHeader, nameImpl>>
    /\ UNCHANGED notNameVars

\* header := generateHeader(name, layout); impl := generateImpl(name, prog)
NameGenerate ==
    /\ namePc = "generate"
    /\ nameHeader' = generateHeader(progName, <<>>)
    /\ nameImpl' = generateImpl(progName, [ZeroProgram EXCEPT !.workgroupSize = <<1, 1, 1>>])
    /\ namePc' = "objcopy"
    /\ UNCHANGED <<file, objSyms, symtab, progName>>
    /\ UNCHANGED notNameVars

\* The object is written to the .syso file and objcopy renames its symbols
\* in place; when objcopy fails the file is left as written.
NameObjcopy ==
    /\ namePc = "objcopy"
    /\ \E ok \in BOOLEAN :
         IF ok
         THEN symtab' = RedefineSyms(symtab, Renames(progName)) /\ namePc' = "done"
         ELSE symtab' = symtab /\ namePc' = "failed"
    /\ UNCHANGED <<file, objSyms, progName, nameHeader, nameImpl>>
    /\ UNCHANGED notNameVars

NameStart ==
    /\ file \in SourceFiles
    /\ objSyms \in ObjectSymbols
    /\ symtab = objSyms
    /\ namePc = "name"
    /\ progName = ""
    /\ nameHeader = <<>>
    /\ nameImpl = <<>>

(***************************************************************************)
(* Specifications.  Each runs one part of the program; the other parts'    *)
(* variables rest.                                                         *)
(***************************************************************************)
LayoutIdle ==
    /\ tokens = <<>> /\ layoutDef = <<>> /\ layoutPc = "idle" /\ layout = <<>>
    /\ layoutErr = "" /\ header = <<>> /\ goImpl = <<>> /\ goFallback = <<>>

ParamsIdle ==
    /\ disRunOk = TRUE /\ disasm = <<>> /\ paramsPc = "idle"
    /\ prog = ZeroProgram /\ progErr = ""

CompileIdle ==
    /\ nargs = 0 /\ mainPc = "idle" /\ exitCode = -1 /\ ran = <<>> /\ failed = <<>>
    /\ impl = <<>> /\ renames = <<>> /\ written = <<>> /\ qprops = <<>>
    /\ vkPc = "idle" /\ created = <<>> /\ destroyed = <<>> /\ heap = {}
    /\ defers = <<>> /\ vkErr = ""

DriverIdle ==
    /\ nthreads = 0 /\ builtFrom = 0 /\ current = 0 /\ drvPc = "idle"
    /\ spawned = 0 /\ received = 0 /\ prepared = <<>> /\ workerPc = <<>>

BarrierIdle ==
    /\ nInv = 0 /\ nBarriers = 0 /\ wgPc = "idle" /\ cursor = 0
    /\ coState = <<>> /\ reached = <<>> /\ segments = <<>>

NameIdle ==
    /\ file = <<>> /\ objSyms = {} /\ symtab = {} /\ namePc = "idle"
    /\ progName = "" /\ nameHeader = <<>> /\ nameImpl = <<>>

LayoutInit ==
    LayoutStart /\ ParamsIdle /\ CompileIdle /\ DriverIdle /\ BarrierIdle /\ NameIdle
LayoutNext == ParseLayout \/ Generate
SpecLayout == LayoutInit /\ [][LayoutNext]_vars

DriverInit ==
    DriverStart /\ LayoutIdle /\ ParamsIdle /\ CompileIdle /\ BarrierIdle /\ NameIdle
DriverNext ==
    \/ DrvPrepare \/ DrvSpawn \/ DrvReadback \/ DrvReturn
    \/ \E i \in Workers : WorkerDispatch(i)
    \/ \E i \in Workers : WorkerDispatched(i)
    \/ \E i \in Workers : Handoff(i)
SpecDriver == DriverInit /\ [][DriverNext]_vars

BarrierInit ==
    BarrierStart /\ LayoutIdle /\ ParamsIdle /\ CompileIdle /\ DriverIdle /\ NameIdle
BarrierNext == CoBegin \/ CoAwait \/ CoDestroy
SpecBarrier == BarrierInit /\ [][BarrierNext]_vars

CompileInit == CompileStart /\ DriverIdle /\ BarrierIdle /\ NameIdle
CompileNext ==
    \/ CheckArgs \/ MainParseLayout \/ ReadSource \/ GlslToSPIRV \/ MainParseParams
    \/ VkCreateInstance \/ VkEnumeratePhysicalDevices \/ FindComputeQueue
    \/ VkCreateDevice \/ VkCreateShaderModule \/ VkCreateDescriptorSetLayout
    \/ VkCreatePipelineLayout \/ VkCreateComputePipelines \/ ReadObjFile
    \/ RunDeferred \/ CompileReturn
    \/ Getwd \/ GenerateAll \/ WriteSyso \/ Objcopy \/ WriteArtifact
SpecCompile == CompileInit /\ [][CompileNext]_vars

ParamsInit ==
    ParamsStart /\ LayoutIdle /\ CompileIdle /\ DriverIdle /\ BarrierIdle /\ NameIdle
ParamsNext == ParseParams
SpecParams == ParamsInit /\ [][ParamsNext]_vars

NameInit ==
    NameStart /\ LayoutIdle /\ ParamsIdle /\ CompileIdle /\ DriverIdle /\ BarrierIdle
NameNext == DeriveName \/ NameGenerate \/ NameObjcopy
SpecName == NameInit /\ [][NameNext]_vars

(***************************************************************************)
(* Properties of the layout parser and the emitters.                       *)
(***************************************************************************)
InputTokens == Split(layoutDef, ",")

Parsed == layoutPc \in {"emit", "done", "panic", "failed"}

ExpectedType(tok) ==
    IF tok.kind = "buffer" THEN descriptorTypeBuffer ELSE descriptorTypeImage

ExpectedCount(tok) == IF tok.hasCount THEN tok.count ELSE 1

\* C7: a layout text made only of tokens of the grammar parses without
\* error into one descriptor per token, in the order of the text, each with
\* the binding, the kind and the count its token was written with, the
\* count being 1 for a token written without [count].
C7_WellFormedParsesInOrder ==
    (Parsed /\ \A i \in 1..Len(InputTokens) : WellFormedToken(InputTokens[i]))
      => /\ layoutErr = ""
         /\ Len(layout) = Len(InputTokens)
         /\ Len(layout) = Len(tokens)
         /\ \A i \in 1..Len(layout) :
              /\ InputTokens[i] = tokens[i].text
              /\ layout[i].binding = tokens[i].binding
              /\ layout[i]._type = ExpectedType(tokens[i])
              /\ layout[i].count = ExpectedCount(tokens[i])

\* C7 witness: two tokens of the grammar, the first with a count and the
\* second without, of different kinds and bindings, have been parsed.
C7_Witness ==
    /\ layoutPc = "emit"
    /\ Len(tokens) = 2
    /\ \A i \in 1..2 : WellFormedToken(InputTokens[i])
    /\ tokens[1].hasCount /\ ~tokens[2].hasCount
    /\ tokens[1].kind # tokens[2].kind
    /\ layout[1].count = 2 /\ layout[2].count = 1
    /\ layout[1].binding = 1 /\ layout[2].binding = 0

\* C8: whenever some token of the text is not of the grammar (neither
\* binding:kind nor binding:[count]kind with kind buffer or image), the
\* parser returns an error and no layout.
C8_MalformedTokenRejected ==
    (Parsed /\ \E i \in 1..Len(InputTokens) : ~WellFormedToken(InputTokens[i]))
      => (layoutErr # "" /\ layout = <<>>)

\* C9: every descriptor of a layout returned without error has
\* binding >= 0 and count >= 1.
C9_DescriptorRanges ==
    (Parsed /\ layoutErr = "")
      => \A i \in 1..Len(layout) : layout[i].binding >= 0 /\ layout[i].count >= 1

\* C10: for every descriptor the three emitters agree.  With count = 1 the
\* header field is a single descriptor and neither accessor takes an index;
\* with count > 1 the header field is an array of count descriptors, both
\* accessors take the index, and the real accessor indexes that very field.
C10_EmittersAgree ==
    layoutPc = "done" =>
      /\ Len(header.fields) = Len(layout)
      /\ Len(goImpl.accessors) = Len(layout)
      /\ Len(goFallback.accessors) = Len(layout)
      /\ \A i \in 1..Len(layout) :
           /\ goImpl.accessors[i].method = goFallback.accessors[i].method
           /\ goImpl.accessors[i].field = header.fields[i].field
           /\ layout[i].count = 1 =>
                /\ header.fields[i].array = <<>>
                /\ goImpl.accessors[i].args = ""
                /\ goImpl.accessors[i].index = ""
                /\ goFallback.accessors[i].args = ""
           /\ layout[i].count > 1 =>
                /\ header.fields[i].array = <<Itoa(layout[i].count)>>
                /\ goImpl.accessors[i].args = "index int"
                /\ goImpl.accessors[i].index = "[index]"
                /\ goFallback.accessors[i].args = "index int"

\* C10 witness: artifacts were emitted for a layout holding a single
\* descriptor and an array of descriptors.
C10_Witness ==
    /\ layoutPc = "done"
    /\ Len(layout) = 2
    /\ layout[1].count = 1 /\ layout[2].count = 2
    /\ goFallback.accessors[2].args = "index int"
    /\ header.fields[2].array = <<<<"2">>>>

(***************************************************************************)
(* Properties of parseProgramParams.                                       *)
(***************************************************************************)
\* A line with a workgroup-size annotation: "LocalSize " and three integers.
HasLocalSize(line) ==
    /\ Index(line, S_LocalSizeSp) # 0
    /\ ~Sscanf(SubSeq(line, Index(line, S_LocalSizeSp), Len(line)), FormatLocalSize).err

Annotated(text) ==
    \E i \in 1..Len(Split(text, "\n")) : HasLocalSize(Split(text, "\n")[i])

\* C6: parseProgramParams returns an error whenever the disassembly holds
\* no well-formed workgroup-size annotation, and every program it returns
\* without error has its three workgroupSize components above 0.
C6_MissingLocalSizeIsError ==
    paramsPc = "done" =>
      /\ (disRunOk /\ ~Annotated(disasm)) => progErr # ""
      /\ progErr = "" => \A k \in 1..3 : prog.workgroupSize[k] > 0

(***************************************************************************)
(* Properties of the compile command.                                      *)
(***************************************************************************)
RECURSIVE Reverse(_)
Reverse(q) == IF q = <<>> THEN <<>> ELSE Append(Reverse(Tail(q)), Head(q))

\* C4: when compileProgram has returned an error, every handle it had
\* created has been destroyed, each one after all the handles created
\* later than it: the handles were destroyed in the reverse of the order
\* of their creation.
C4_FailureDestroysAllHandles ==
    (vkPc = "returned" /\ vkErr # "") => destroyed = Reverse(created)

\* C5: a stage of main that fails ends the run with a non-zero exit code,
\* as the last stage run; no stage is run twice; and the exit code is zero
\* only after every stage has run and none has failed.
C5_FailureAborts ==
    /\ exitCode = 0 => (failed = <<>> /\ ran = Stages \o ArtifactFiles(ProgramName))
    /\ failed # <<>> =>
         /\ mainPc = "exited"
         /\ exitCode \in {1, 2}
         /\ Len(failed) = 1
         /\ ran[Len(ran)] = failed[1]
    /\ \A i, j \in 1..Len(ran) : i < j => ran[i] # ran[j]
    /\ (mainPc = "exited" /\ failed = <<>>) => exitCode = 0

\* C5 witness: objcopy failed after the object file was written, and the
\* run ended there with exit code 2.
C5_Witness ==
    /\ mainPc = "exited"
    /\ failed = <<"objcopy">>
    /\ exitCode = 2
    /\ Len(written) = 1
    /\ ran = Stages

(***************************************************************************)
(* Properties of the dispatch driver.                                      *)
(***************************************************************************)
\* C2: the buffer and image contents are read back only after every one of
\* the nthreads workers has returned from Dispatch and sent its completion
\* signal.
C2_ReadbackAfterAllWorkers ==
    drvPc \in {"readback", "done"} =>
      /\ received = nthreads
      /\ \A i \in Workers : workerPc[i] = "exit"

\* C2 witness: the readback is reached with more than one worker.
C2_Witness == drvPc = "readback" /\ nthreads >= 2 /\ received = nthreads

C1_NoStepPastBarrierBeforeAllReach ==
    \A i, j \in Invocations : segments[i] - 1 <= reached[j]

\* C1 witness: an invocation has run the segment after a barrier while
\* another one, which has reached that barrier, has not yet run it.
C1_Witness ==
    /\ wgPc = "await"
    /\ nBarriers >= 1
    /\ \E i, j \in Invocations : segments[i] = 2 /\ segments[j] = 1 /\ reached[j] = 1

(***************************************************************************)
(* Properties of the symbol renaming.                                      *)
(***************************************************************************)
\* name_S: the program's name, an underscore, the symbol.
Prefixed(sym) == progName \o "_" \o sym

\* C11: for every program name, once objcopy has run each of the six
\* coroutine symbols S of the object is called name_S and no other symbol
\* has changed its name; and the begin, await and destroy names the header
\* declares and program_info refers to are the new names of coroutine_begin,
\* coroutine_await and coroutine_destroy.
C11_SymbolsRenamedAsDeclared ==
    namePc = "done" =>
      /\ \A i \in 1..Len(symbols) :
           /\ Prefixed(symbols[i]) \in symtab
           /\ symbols[i] \notin symtab
      /\ \A sym \in objSyms :
           (\A i \in 1..Len(symbols) : symbols[i] # sym) => sym \in symtab
      /\ Cardinality(symtab) = Cardinality(objSyms)
      /\ nameHeader.begin = Prefixed("coroutine_begin")
      /\ nameHeader.await = Prefixed("coroutine_await")
      /\ nameHeader.destroy = Prefixed("coroutine_destroy")
      /\ nameImpl.begin = nameHeader.begin
      /\ nameImpl.await = nameHeader.await
      /\ nameImpl.destroy = nameHeader.destroy
      /\ {nameImpl.begin, nameImpl.await, nameImpl.destroy} \subseteq symtab

\* C11 witness: objcopy has renamed the symbols of an object that holds
\* other symbols too, for a source file in a directory.
C11_Witness ==
    /\ namePc = "done"
    /\ progName = "blur"
    /\ "blur_coroutine_begin.cleanup" \in symtab
    /\ "memset" \in symtab

====
